---- MODULE Spec2Model ----
(***************************************************************************)
(* The ML-service client of backend/transactions/ml_client.py: the circuit *)
(* breaker of MLServiceClient, predict_category, predict_batch and         *)
(* health_check.                                                           *)
(*                                                                         *)
(* Spec      one caller; every handler is one atomic action.               *)
(* SpecConc  several request threads on the shared client; every read and  *)
(*           write of a circuit field is its own step.                     *)
(* SpecClient  several request threads in get_ml_client, from the start of *)
(*           the process; every read and write of _ml_client is its own    *)
(*           step.                                                         *)
(***************************************************************************)
EXTENDS Integers, Sequences, FiniteSets, TLC

(***************************************************************************)
(* Program constants                                                       *)
(***************************************************************************)
FailureThreshold == 3
RecoveryTimeout == 60
RequestTimeout == 10

(***************************************************************************)
(* Bounds of the model                                                     *)
(***************************************************************************)
MaxTime == 80
MaxLen == 1
MaxBatch == 2
MaxStreak == 4
MaxCount == 4
MaxRepeat == 2
MaxWords == 2

\* Python's None for a timestamp, a confidence or a status
NoTime == -1
NoConfidence == -1
NoStatus == 0
\* `_ml_client = None`: no client constructed yet; clients are numbered from 1
NoClient == 0

\* How far the wall clock moves in one Tick (seconds)
TickSteps == {59, 60}
\* How long a network call lasts (seconds)
Latencies == {0, RequestTimeout}

(***************************************************************************)
(* Inputs                                                                  *)
(***************************************************************************)
Chars == {" ", "a"}
Descriptions == UNION {[1..n -> Chars] : n \in 0..MaxLen}

RECURSIVE LStrip(_)
LStrip(s) == IF s # <<>> /\ Head(s) = " " THEN LStrip(Tail(s)) ELSE s

RECURSIVE RStrip(_)
RStrip(s) ==
    IF s # <<>> /\ s[Len(s)] = " " THEN RStrip(SubSeq(s, 1, Len(s) - 1)) ELSE s

\* str.strip()
Strip(s) == RStrip(LStrip(s))

\* `not description or not description.strip()`
IsBlank(description) == description = <<>> \/ Strip(description) = <<>>

Categories == {"Food", "Travel"}
\* the caller's fallback argument; "None" is Python's None
FallbackArgs == {"None", "Other"}
\* confidences in ten-thousandths (8523 is 0.8523)
Confidences == {8523, 12000}
\* prediction.alternatives of a body: absent (read as []) or a ranked list
AlternativeLists == {<<>>, <<"Travel", "Bills">>}
\* the 'metadata' object of a body; "None" is Python's None (key absent)
NoMetadata ==
    [preprocessed_text |-> "None", inference_time_ms |-> "None",
     model_version |-> "None"]
Metadatas ==
    {NoMetadata,
     [preprocessed_text |-> "a", inference_time_ms |-> "12.5",
      model_version |-> "1.0.0"]}
OtherStatuses == {404, 500}

BatchInputs == UNION {[1..n -> {<<"a">>}] : n \in 0..MaxBatch}
PredictionLists == UNION {[1..n -> Categories] : n \in 0..MaxBatch}

(***************************************************************************)
(* What the remote service does with one request.                          *)
(*   response   a status arrived; for 200 the body is                      *)
(*       ok             JSON object with category and numeric confidence   *)
(*       not_json       response.json() raises                             *)
(*       no_confidence  JSON object whose confidence is absent or not a    *)
(*                      number: the :.4f of the log line raises            *)
(*       not_object     JSON that is no object: data.get raises            *)
(*   timeout, connection_error, fault   requests.post raises               *)
(***************************************************************************)
Response(status, body, category, confidence) ==
    [kind |-> "response", status |-> status, body |-> body,
     category |-> category, confidence |-> confidence,
     alternatives |-> <<>>, metadata |-> NoMetadata, predictions |-> <<>>]

\* a 200 whose body is well formed: prediction.category, .confidence and
\* .alternatives and the metadata object
Prediction(category, confidence, alternatives, metadata) ==
    [kind |-> "response", status |-> 200, body |-> "ok",
     category |-> category, confidence |-> confidence,
     alternatives |-> alternatives, metadata |-> metadata, predictions |-> <<>>]

Raises(kind) ==
    [kind |-> kind, status |-> NoStatus, body |-> "none",
     category |-> "None", confidence |-> NoConfidence,
     alternatives |-> <<>>, metadata |-> NoMetadata, predictions |-> <<>>]

\* a 200 of the batch endpoint whose body holds the list `predictions`
BatchResponse(predictions) ==
    [kind |-> "response", status |-> 200, body |-> "ok",
     category |-> "None", confidence |-> NoConfidence,
     alternatives |-> <<>>, metadata |-> NoMetadata,
     predictions |-> predictions]

Remotes ==
    {Prediction(c, x, a, m) : c \in Categories, x \in Confidences,
                              a \in AlternativeLists, m \in Metadatas}
    \cup {Response(200, b, "None", NoConfidence) :
               b \in {"not_json", "not_object", "no_confidence"}}
    \cup {Response(s, "ok", "None", NoConfidence) : s \in {503} \cup OtherStatuses}
    \cup {Raises(k) : k \in {"timeout", "connection_error", "fault"}}

\* the batch endpoint: a 200 with a list of predictions of any length, a 200
\* without the 'predictions' key, a 200 that is no JSON or no object, another
\* status, or an exception of requests.post
BatchRemotes ==
    {BatchResponse(p) : p \in PredictionLists}
    \cup {Response(200, b, "None", NoConfidence) :
               b \in {"no_predictions", "not_json", "not_object"}}
    \cup {Response(s, "ok", "None", NoConfidence) : s \in {503} \cup OtherStatuses}
    \cup {Raises(k) : k \in {"timeout", "connection_error", "fault"}}

\* the health endpoint: any status with a JSON body or not, or an exception
HealthRemotes ==
    {Response(s, b, "None", NoConfidence) :
        s \in {200, 503} \cup OtherStatuses, b \in {"ok", "not_json"}}
    \cup {Raises(k) : k \in {"timeout", "connection_error", "fault"}}

(***************************************************************************)
(* Outcomes returned to the caller                                         *)
(***************************************************************************)
Reason(text) == [text |-> text, status |-> NoStatus]
\* f"HTTP {response.status_code}"
HttpReason(status) == [text |-> "HTTP", status |-> status]
NoReason == Reason("")

\* an outcome without the fields of `kind`: every field is None or empty
NoOutcome(kind) ==
    [kind |-> kind, category |-> "None", confidence |-> NoConfidence,
     alternatives |-> <<>>, preprocessed_text |-> "None",
     inference_time_ms |-> "None", model_version |-> "None",
     reason |-> NoReason]

NoneOutcome == NoOutcome("None")

\* as SuccessOutcome, with the category read from the head of the
\* alternatives when there are any
SuccessOutcomeTopAlternative(category, confidence, alternatives, metadata) ==
    [kind |-> "success",
     category |-> IF alternatives # <<>> THEN Head(alternatives) ELSE category,
     confidence |-> confidence,
     alternatives |-> alternatives,
     preprocessed_text |-> metadata.preprocessed_text,
     inference_time_ms |-> metadata.inference_time_ms,
     model_version |-> metadata.model_version,
     reason |-> NoReason]

\* as SuccessOutcome, with the confidence rounded to two decimals
SuccessOutcomeRounded(category, confidence, alternatives, metadata) ==
    [kind |-> "success", category |-> category,
     confidence |-> ((confidence + 50) \div 100) * 100,
     alternatives |-> alternatives,
     preprocessed_text |-> metadata.preprocessed_text,
     inference_time_ms |-> metadata.inference_time_ms,
     model_version |-> metadata.model_version,
     reason |-> NoReason]

\* the dict `result` of lines 211-219
SuccessOutcome(category, confidence, alternatives, metadata) ==
    [kind |-> "success", category |-> category, confidence |-> confidence,
     alternatives |-> alternatives,
     preprocessed_text |-> metadata.preprocessed_text,
     inference_time_ms |-> metadata.inference_time_ms,
     model_version |-> metadata.model_version,
     reason |-> NoReason]

\* one element of the remote's 'predictions' list, handed back as it came
RemoteOutcome(category) == [NoOutcome("remote") EXCEPT !.category = category]

\* what health_check gives: kind is "disabled", "body" (response.json()),
\* "unavailable" (MLServiceUnavailableError raised) or "error" (another
\* exception raised)
HealthOutcome(kind) == NoOutcome(kind)

\* the dict of lines 285-292
FallbackOutcome(fallback_category, reason) ==
    [NoOutcome("fallback") EXCEPT !.category = fallback_category,
                                  !.confidence = 0, !.reason = reason]

\* as FallbackResponse, with the test of fallback_enabled left out
FallbackResponseAlways(fallback_enabled, fallback_category, reason) ==
    FallbackOutcome(fallback_category, reason)

\* _fallback_response
FallbackResponse(fallback_enabled, fallback_category, reason) ==
    IF ~fallback_enabled
    THEN NoneOutcome
    ELSE FallbackOutcome(fallback_category, reason)

(***************************************************************************)
(* The circuit breaker, as functions of the three fields                   *)
(***************************************************************************)
InitCircuit ==
    [failure_count |-> 0, is_circuit_open |-> FALSE, circuit_open_time |-> NoTime]

\* as IsCircuitBreakerOpen, with the line resetting _failure_count left out
\* of the recovery
IsCircuitBreakerOpenKeepsCount(cb, t) ==
    IF ~cb.is_circuit_open
    THEN [ret |-> FALSE, cb |-> cb]
    ELSE IF cb.circuit_open_time # NoTime
            /\ t - cb.circuit_open_time >= RecoveryTimeout
         THEN [ret |-> FALSE,
               cb |-> [cb EXCEPT !.is_circuit_open = FALSE,
                                 !.circuit_open_time = NoTime]]
         ELSE [ret |-> TRUE, cb |-> cb]

\* as IsCircuitBreakerOpen, with the opening time refreshed by every call
\* that finds the circuit open
IsCircuitBreakerOpenRestamps(cb, t) ==
    IF ~cb.is_circuit_open
    THEN [ret |-> FALSE, cb |-> cb]
    ELSE IF cb.circuit_open_time # NoTime
            /\ t - cb.circuit_open_time >= RecoveryTimeout
         THEN [ret |-> FALSE, cb |-> InitCircuit]
         ELSE [ret |-> TRUE, cb |-> [cb EXCEPT !.circuit_open_time = t]]

\* as IsCircuitBreakerOpen, with the test of the elapsed time left out: an
\* open circuit is reset by the first call that finds it open
IsCircuitBreakerOpenNoWait(cb, t) ==
    IF ~cb.is_circuit_open
    THEN [ret |-> FALSE, cb |-> cb]
    ELSE IF cb.circuit_open_time # NoTime
         THEN [ret |-> FALSE, cb |-> InitCircuit]
         ELSE [ret |-> TRUE, cb |-> cb]

\* as IsCircuitBreakerOpen, with the recovery test written > instead of >=
IsCircuitBreakerOpenStrict(cb, t) ==
    IF ~cb.is_circuit_open
    THEN [ret |-> FALSE, cb |-> cb]
    ELSE IF cb.circuit_open_time # NoTime
            /\ t - cb.circuit_open_time > RecoveryTimeout
         THEN [ret |-> FALSE, cb |-> InitCircuit]
         ELSE [ret |-> TRUE, cb |-> cb]

\* _is_circuit_breaker_open at time `t`: the answer and the fields afterwards
IsCircuitBreakerOpen(cb, t) ==
    IF ~cb.is_circuit_open
    THEN [ret |-> FALSE, cb |-> cb]
    ELSE IF cb.circuit_open_time # NoTime
            /\ t - cb.circuit_open_time >= RecoveryTimeout
         THEN [ret |-> FALSE, cb |-> InitCircuit]
         ELSE [ret |-> TRUE, cb |-> cb]

\* as RecordFailure, with the line stamping _circuit_open_time left out
RecordFailureNoStamp(cb, t) ==
    LET n == cb.failure_count + 1 IN
    IF n >= FailureThreshold
    THEN [cb EXCEPT !.failure_count = n, !.is_circuit_open = TRUE]
    ELSE [cb EXCEPT !.failure_count = n]

\* _record_failure at time `t`
RecordFailure(cb, t) ==
    LET n == cb.failure_count + 1 IN
    IF n >= FailureThreshold
    THEN [failure_count |-> n, is_circuit_open |-> TRUE, circuit_open_time |-> t]
    ELSE [cb EXCEPT !.failure_count = n]

\* as RecordSuccess, with the line resetting _failure_count left out
RecordSuccessKeepsCount(cb) ==
    [cb EXCEPT !.is_circuit_open = FALSE, !.circuit_open_time = NoTime]

\* _record_success
RecordSuccess(cb) ==
    [failure_count |-> 0, is_circuit_open |-> FALSE, circuit_open_time |-> NoTime]

(***************************************************************************)
(* predict_category as one call: the circuit fields `cb` and the clock `t` *)
(* at entry, the call's inputs, the remote's behaviour and the duration of *)
(* the network call.  Gives the fields afterwards, the returned outcome,   *)
(* the number of requests sent and what was recorded on the circuit.       *)
(***************************************************************************)
\* `via` names the return statement taken: "disabled" (line 177),
\* "circuit_open" (182), "invalid_input" (191) or "request" (the try block)
Returned(cb, result, net_calls, recorded, via) ==
    [cb |-> cb, result |-> result, net_calls |-> net_calls,
     recorded |-> recorded, via |-> via]

\* the try block of predict_category: requests.post and the handling of its
\* response or exception; `t` is the time the call ends
PredictRequest(fallback_enabled, cb, t, fallback, remote) ==
    LET Failed(c, recorded, reason) ==
            Returned(RecordFailure(c, t),
                     FallbackResponse(fallback_enabled, fallback, reason),
                     1, Append(recorded, "failure"), "request")
    IN
    CASE remote.kind = "timeout" -> Failed(cb, <<>>, Reason("Timeout"))
      [] remote.kind = "connection_error" ->
            Failed(cb, <<>>, Reason("Connection error"))
      [] remote.kind = "fault" -> Failed(cb, <<>>, Reason("Unexpected error"))
      [] remote.kind = "response" /\ remote.status = 200 ->
            IF remote.body = "not_json"
            THEN Failed(cb, <<>>, Reason("Unexpected error"))
            ELSE IF remote.body = "ok"
            THEN Returned(RecordSuccess(cb),
                          SuccessOutcome(remote.category, remote.confidence,
                                         remote.alternatives, remote.metadata),
                          1, <<"success">>, "request")
            ELSE Failed(RecordSuccess(cb), <<"success">>,
                        Reason("Unexpected error"))
      [] remote.kind = "response" /\ remote.status = 503 ->
            Failed(cb, <<>>, Reason("Service unavailable"))
      [] OTHER -> Failed(cb, <<>>, HttpReason(remote.status))

PredictCategoryCall(is_enabled, fallback_enabled, cb, t, description, fallback, remote, latency) ==
    IF ~is_enabled
    THEN Returned(cb, FallbackResponse(fallback_enabled, fallback,
                                       Reason("Service disabled")), 0, <<>>,
                  "disabled")
    ELSE LET chk == IsCircuitBreakerOpen(cb, t) IN
         IF chk.ret
         THEN Returned(chk.cb, FallbackResponse(fallback_enabled, fallback,
                                    Reason("Circuit breaker open")), 0, <<>>,
                       "circuit_open")
         ELSE IF IsBlank(description)
         THEN Returned(chk.cb, NoneOutcome, 0, <<>>, "invalid_input")
         ELSE PredictRequest(fallback_enabled, chk.cb, t + latency, fallback,
                             remote)

(***************************************************************************)
(* predict_batch as one call over `n` descriptions                         *)
(***************************************************************************)
BatchReturned(cb, results, net_calls, recorded) ==
    [cb |-> cb, results |-> results, net_calls |-> net_calls,
     recorded |-> recorded]

\* [self._fallback_response(desc, None, reason) for desc in descriptions]
FallbackList(fallback_enabled, n, reason) ==
    [i \in 1..n |-> FallbackResponse(fallback_enabled, "None", reason)]

\* as BatchRequest, with one request sent per description
BatchRequestPerItem(fallback_enabled, cb, t, n, remote) ==
    LET Failed(c, recorded, reason) ==
            BatchReturned(RecordFailure(c, t),
                          FallbackList(fallback_enabled, n, reason),
                          n, Append(recorded, "failure"))
    IN
    CASE remote.kind # "response" -> Failed(cb, <<>>, Reason("str(e)"))
      [] remote.kind = "response" /\ remote.status = 200 ->
            IF remote.body = "not_json"
            THEN Failed(cb, <<>>, Reason("str(e)"))
            ELSE IF remote.body = "not_object"
            THEN Failed(RecordSuccess(cb), <<"success">>, Reason("str(e)"))
            ELSE BatchReturned(RecordSuccess(cb),
                     [i \in 1..Len(remote.predictions) |->
                          RemoteOutcome(remote.predictions[i])],
                     n, <<"success">>)
      [] OTHER -> Failed(cb, <<>>, Reason("Batch failed"))

\* the try block of predict_batch; `t` is the time the call ends
BatchRequest(fallback_enabled, cb, t, n, remote) ==
    LET Failed(c, recorded, reason) ==
            BatchReturned(RecordFailure(c, t),
                          FallbackList(fallback_enabled, n, reason),
                          1, Append(recorded, "failure"))
    IN
    CASE remote.kind # "response" -> Failed(cb, <<>>, Reason("str(e)"))
      [] remote.kind = "response" /\ remote.status = 200 ->
            IF remote.body = "not_json"
            THEN Failed(cb, <<>>, Reason("str(e)"))
            ELSE IF remote.body = "not_object"
            THEN Failed(RecordSuccess(cb), <<"success">>, Reason("str(e)"))
            ELSE BatchReturned(RecordSuccess(cb),
                     [i \in 1..Len(remote.predictions) |->
                          RemoteOutcome(remote.predictions[i])],
                     1, <<"success">>)
      [] OTHER -> Failed(cb, <<>>, Reason("Batch failed"))

\* as PredictBatchCall, with the operands of line 307 swapped: the circuit
\* breaker is consulted before the enabled flag
PredictBatchCallCircuitFirst(is_enabled, fallback_enabled, cb, t, n, remote, latency) ==
    LET chk == IsCircuitBreakerOpen(cb, t) IN
    IF chk.ret \/ ~is_enabled
    THEN BatchReturned(chk.cb, FallbackList(fallback_enabled, n,
                           Reason("Service disabled or circuit open")), 0, <<>>)
    ELSE BatchRequest(fallback_enabled, chk.cb, t + latency, n, remote)

PredictBatchCall(is_enabled, fallback_enabled, cb, t, n, remote, latency) ==
    IF ~is_enabled
    THEN BatchReturned(cb, FallbackList(fallback_enabled, n,
                           Reason("Service disabled or circuit open")), 0, <<>>)
    ELSE LET chk == IsCircuitBreakerOpen(cb, t) IN
         IF chk.ret
         THEN BatchReturned(chk.cb, FallbackList(fallback_enabled, n,
                           Reason("Service disabled or circuit open")), 0, <<>>)
         ELSE BatchRequest(fallback_enabled, chk.cb, t + latency, n, remote)

(***************************************************************************)
(* The view-level predict_category of views.py: the wrapper the endpoints  *)
(* call.  It gets the client, calls its predict_category with fallback     *)
(* None, and turns the outcome, or an exception, into a dict.              *)
(***************************************************************************)
\* a description that is no str but is truthy, such as the int 5: the
\* `description.strip()` of line 189 of the client raises AttributeError
NonString == <<"int">>
ViewDescriptions == Descriptions \cup {NonString}

\* the dicts the wrapper returns; "None" and NoReason are absent keys
NoView ==
    [success |-> FALSE, predicted_category |-> "None",
     confidence |-> NoConfidence, error |-> NoReason, fallback |-> FALSE]

\* the client call of line 184: whether it raised, and what PredictCategoryCall
\* gives when it did not.  The AttributeError of a NonString leaves the
\* client after the circuit check, before the try block.
ViewClientCall(is_enabled, fallback_enabled, cb, t, description, remote, latency) ==
    IF description = NonString /\ is_enabled /\ ~IsCircuitBreakerOpen(cb, t).ret
    THEN [raised |-> TRUE,
          r |-> Returned(IsCircuitBreakerOpen(cb, t).cb, NoneOutcome, 0, <<>>,
                         "raised")]
    ELSE [raised |-> FALSE,
          r |-> PredictCategoryCall(is_enabled, fallback_enabled, cb, t,
                                    description, "None", remote, latency)]

\* as ViewReturn, without the test of the outcome's 'success' key
ViewReturnTrusting(raised, result) ==
    IF raised
    THEN [NoView EXCEPT !.error = Reason("An unexpected error occurred")]
    ELSE IF result.kind = "None"
    THEN [NoView EXCEPT !.error = Reason("AI service temporarily unavailable")]
    ELSE [NoView EXCEPT !.success = TRUE,
                        !.predicted_category = result.category,
                        !.confidence = result.confidence]

\* lines 186-217: the dict returned for the client's outcome `result`, or for
\* the exception caught at line 208
ViewReturn(raised, result) ==
    IF raised
    THEN [NoView EXCEPT !.error = Reason("An unexpected error occurred")]
    ELSE IF result.kind = "None"
    THEN [NoView EXCEPT !.error = Reason("AI service temporarily unavailable")]
    ELSE IF result.kind # "success"
    THEN [NoView EXCEPT !.error = result.reason, !.fallback = TRUE]
    ELSE [NoView EXCEPT !.success = TRUE,
                        !.predicted_category = result.category,
                        !.confidence = result.confidence]

(***************************************************************************)
(* process_voice_entry of views.py with process_voice_transaction of       *)
(* nlp_processing.py.  The voice text is the list of its words.            *)
(***************************************************************************)
VoiceWords == {"paid", "taxi", "rent"}
VoiceTexts == UNION {[1..n -> VoiceWords] : n \in 0..MaxWords}

\* _CATEGORY_KEYWORDS, for the words of the model
CategoryKeywords == [w \in {"taxi", "rent"} |->
                        IF w = "taxi" THEN "Transport" ELSE "Rent"]

\* _infer_category: the category of the first keyword, or None
RECURSIVE InferCategory(_)
InferCategory(words) ==
    IF words = <<>> THEN "None"
    ELSE IF Head(words) \in DOMAIN CategoryKeywords
    THEN CategoryKeywords[Head(words)]
    ELSE InferCategory(Tail(words))

\* _clean_description, as the client sees it: the words, each a run of
\* letters, joined by single blanks
RECURSIVE CleanDescription(_)
CleanDescription(words) ==
    IF words = <<>> THEN <<>>
    ELSE IF Len(words) = 1 THEN <<"a">>
    ELSE <<"a", " ">> \o CleanDescription(Tail(words))

\* round(float(confidence), 4): the confidences of the model are whole
\* ten-thousandths, the nearest of which is the value itself
Round4(confidence) == ((confidence * 10 + 5) \div 10)

NoPayload ==
    [status |-> NoStatus, category |-> "None",
     category_confidence |-> NoConfidence, category_source |-> "none"]

\* as VoicePayload, with the predictor's category taken whenever the
\* prediction carries one, whether it succeeded or not
VoicePayloadAnyCategory(hint, prediction) ==
    [status |-> 200,
     category |-> IF prediction.success THEN prediction.predicted_category
                  ELSE IF prediction.fallback THEN "None"
                  ELSE IF hint # "None" THEN hint ELSE "Uncategorized",
     category_confidence |-> IF prediction.success
                             THEN Round4(prediction.confidence)
                             ELSE NoConfidence,
     category_source |-> IF prediction.success THEN "ai" ELSE "rule"]

\* lines 274-292 of process_voice_entry: the response for the keyword hint
\* and the wrapper's dict
VoicePayload(hint, prediction) ==
    [status |-> 200,
     category |-> IF prediction.success THEN prediction.predicted_category
                  ELSE IF hint # "None" THEN hint ELSE "Uncategorized",
     category_confidence |-> IF prediction.success
                             THEN Round4(prediction.confidence)
                             ELSE NoConfidence,
     category_source |-> IF prediction.success THEN "ai" ELSE "rule"]

(***************************************************************************)
(* health_check as one call                                                *)
(***************************************************************************)
\* the outcomes of health_check.  A body that is no JSON makes
\* response.json() raise: a RequestException in the requests releases whose
\* JSONDecodeError derives from it, a plain ValueError in the older ones.
HealthCheckCall(is_enabled, remote) ==
    IF ~is_enabled
    THEN {[result |-> HealthOutcome("disabled"), net_calls |-> 0]}
    ELSE {[result |-> HealthOutcome(k), net_calls |-> 1] :
            k \in CASE remote.kind = "response" /\ remote.body = "ok" -> {"body"}
                    [] remote.kind = "response" -> {"unavailable", "error"}
                    [] remote.kind = "fault" -> {"error"}
                    [] OTHER -> {"unavailable"}}

(***************************************************************************)
(* State                                                                   *)
(***************************************************************************)
VARIABLES
    enabled,            \* self.enabled
    fallback_enabled,   \* self.fallback_enabled
    ml_client,          \* the module global _ml_client
    instances,          \* how many MLServiceClient objects were constructed
    failure_count,      \* self._failure_count
    is_circuit_open,    \* self._is_circuit_open
    circuit_open_time,  \* self._circuit_open_time
    opened_at,          \* when line 109 or 110 last ran since the open flag
                        \* was last cleared; None while the flag is cleared
    now,                \* datetime.now()
    last,               \* the call that has just returned (one caller)
    streak,             \* failed predict_category calls in a row, counted from
                        \* a closed circuit with no failure
    last_failure_at,    \* when the last of them failed
    repeated,           \* the predict_category calls in a row that sent the
                        \* same description and got the same category in a
                        \* well-formed 200
    pc,                 \* per request thread: the line it is about to execute
    loc                 \* per request thread: the locals of its invocation

vars == <<enabled, fallback_enabled, ml_client, instances, failure_count, is_circuit_open,
          circuit_open_time, opened_at, now, last, streak, last_failure_at, repeated,
          pc, loc>>

\* the record of the single caller
caller == <<last, streak, last_failure_at, repeated>>

\* the request threads
threads == <<pc, loc>>

Threads == {"t1", "t2"}

\* locals of an invocation: the handler, whether the description is blank,
\* the _record_success and _record_failure calls still to make, the value
\* read by `_failure_count += 1`, the requests sent, the kind of the
\* outcome returned ("raised" when an exception leaves the handler), and
\* whether the invocation is a trial call: it passed the circuit check by the
\* recovery of lines 95-100 and its request has not been answered yet
NoLocals ==
    [op |-> "none", blank |-> FALSE, todo |-> <<>>, count |-> 0,
     net_calls |-> 0, result |-> "none", trial |-> FALSE,
     client |-> NoClient]

\* the settings, and the client the process has built from them
config == <<enabled, fallback_enabled, ml_client, instances>>

Circuit ==
    [failure_count |-> failure_count, is_circuit_open |-> is_circuit_open,
     circuit_open_time |-> circuit_open_time]

SetCircuit(cb) ==
    /\ failure_count' = cb.failure_count
    /\ is_circuit_open' = cb.is_circuit_open
    /\ circuit_open_time' = cb.circuit_open_time
    /\ opened_at' = IF cb.is_circuit_open THEN cb.circuit_open_time ELSE NoTime

NoCall ==
    [op |-> "none", description |-> <<>>, fallback |-> "None", n |-> 0,
     remote |-> Raises("none"), pre |-> InitCircuit, pre_now |-> 0,
     pre_streak |-> 0, pre_failure_at |-> NoTime,
     net_calls |-> 0, recorded |-> <<>>, via |-> "none",
     result |-> NoneOutcome, results |-> <<>>,
     raised |-> FALSE, view |-> NoView, hint |-> "None", payload |-> NoPayload]

NoRepeat == [description |-> <<>>, category |-> "None", calls |-> 0]

\* MLServiceClient.__init__, called by the first get_ml_client; the flags
\* come from the settings
Init ==
    /\ enabled \in BOOLEAN
    /\ fallback_enabled \in BOOLEAN
    /\ ml_client = 1
    /\ instances = 1
    /\ failure_count = 0
    /\ is_circuit_open = FALSE
    /\ circuit_open_time = NoTime
    /\ opened_at = NoTime
    /\ now = 0
    /\ last = NoCall
    /\ streak = 0
    /\ last_failure_at = NoTime
    /\ repeated = NoRepeat
    /\ pc = [t \in Threads |-> "idle"]
    /\ loc = [t \in Threads |-> NoLocals]

\* the wall clock moves between calls
Tick ==
    \E d \in TickSteps :
        /\ now + d <= MaxTime
        /\ last = NoCall
        /\ now' = now + d
        /\ last' = NoCall
        /\ UNCHANGED <<config, failure_count, is_circuit_open,
                       circuit_open_time, opened_at, streak, last_failure_at, repeated,
                       threads>>

\* a failed call: it reached the network and did not return a success
FailedCall(r) == r.net_calls = 1 /\ r.result.kind # "success"

\* whether a predict_category call entered now gets as far as requests.post
ReachesNetwork(description) ==
    /\ enabled
    /\ ~IsCircuitBreakerOpen(Circuit, now).ret
    /\ ~IsBlank(description)

\* the remote behaviours and durations a call can meet: none when no request
\* is sent
RemotesFor(reaches) == IF reaches THEN Remotes ELSE {Raises("none")}
LatenciesFor(reaches) == IF reaches THEN Latencies ELSE {0}

\* the caller's view of the streak of failed calls after a call returning `r`
\* at time `end`
NextStreak(r) ==
    IF ~FailedCall(r) THEN 0
    ELSE IF ~is_circuit_open /\ failure_count = 0 THEN 1
    ELSE IF streak > 0 /\ streak < MaxStreak THEN streak + 1
    ELSE 0

\* the run of repeated calls after a call with `description` that met `remote`
NextRepeated(description, remote) ==
    IF ~(ReachesNetwork(description) /\ remote.kind = "response"
         /\ remote.status = 200 /\ remote.body = "ok")
    THEN NoRepeat
    ELSE IF repeated.calls > 0 /\ repeated.description = description
            /\ repeated.category = remote.category
         THEN [repeated EXCEPT !.calls = IF @ < MaxRepeat THEN @ + 1 ELSE @]
         ELSE [description |-> description, category |-> remote.category,
               calls |-> 1]

PredictCategory ==
    /\ last = NoCall
    /\ \E description \in Descriptions, fallback \in FallbackArgs :
       \E remote \in RemotesFor(ReachesNetwork(description)),
          latency \in LatenciesFor(ReachesNetwork(description)) :
       \E r \in {PredictCategoryCall(enabled, fallback_enabled, Circuit, now,
                                     description, fallback, remote, latency)} :
           /\ now + latency <= MaxTime
           /\ SetCircuit(r.cb)
           /\ now' = now + latency
           /\ last' = [NoCall EXCEPT
                   !.op = "predict_category", !.description = description,
                   !.fallback = fallback, !.remote = remote,
                   !.pre = Circuit, !.pre_now = now, !.pre_streak = streak,
                   !.pre_failure_at = last_failure_at,
                   !.net_calls = r.net_calls, !.recorded = r.recorded,
                   !.via = r.via, !.result = r.result]
           /\ streak' = NextStreak(r)
           /\ last_failure_at' = IF NextStreak(r) > 0 THEN now + latency ELSE NoTime
           /\ repeated' = NextRepeated(description, remote)
           /\ UNCHANGED <<config, threads>>

\* whether a predict_batch call entered now gets as far as requests.post
BatchReachesNetwork == enabled /\ ~IsCircuitBreakerOpen(Circuit, now).ret

PredictBatch ==
    /\ last = NoCall
    /\ \E descriptions \in BatchInputs :
       \E remote \in IF BatchReachesNetwork THEN BatchRemotes ELSE {Raises("none")},
          latency \in LatenciesFor(BatchReachesNetwork) :
       \E r \in {PredictBatchCall(enabled, fallback_enabled, Circuit, now,
                                  Len(descriptions), remote, latency)} :
           /\ now + latency <= MaxTime
           /\ SetCircuit(r.cb)
           /\ now' = now + latency
           /\ last' = [NoCall EXCEPT
                   !.op = "predict_batch", !.n = Len(descriptions),
                   !.remote = remote, !.pre = Circuit, !.pre_now = now,
                   !.pre_streak = streak, !.pre_failure_at = last_failure_at,
                   !.net_calls = r.net_calls, !.recorded = r.recorded,
                   !.results = r.results]
           /\ streak' = 0
           /\ last_failure_at' = NoTime
           /\ repeated' = NoRepeat
           /\ UNCHANGED <<config, threads>>

\* as HealthCheck, with the probe put behind the circuit breaker: no request
\* while the circuit is open, and a failed probe recorded on the circuit
HealthCheckThroughCircuit ==
    /\ last = NoCall
    /\ \E remote \in IF enabled /\ ~is_circuit_open
                     THEN HealthRemotes ELSE {Raises("none")} :
       \E r \in HealthCheckCall(enabled /\ ~is_circuit_open, remote) :
       \E cb \in {IF r.result.kind \in {"unavailable", "error"}
                  THEN RecordFailure(Circuit, now) ELSE Circuit} :
           /\ last' = [NoCall EXCEPT
                   !.op = "health_check", !.remote = remote, !.pre = Circuit,
                   !.pre_now = now, !.pre_streak = streak,
                   !.pre_failure_at = last_failure_at,
                   !.net_calls = r.net_calls, !.result = r.result]
           /\ SetCircuit(cb)
           /\ UNCHANGED <<config, now, streak, last_failure_at, repeated,
                          threads>>

HealthCheck ==
    /\ last = NoCall
    /\ \E remote \in IF enabled THEN HealthRemotes ELSE {Raises("none")} :
       \E r \in HealthCheckCall(enabled, remote) :
           /\ last' = [NoCall EXCEPT
                   !.op = "health_check", !.remote = remote, !.pre = Circuit,
                   !.pre_now = now, !.pre_streak = streak,
                   !.pre_failure_at = last_failure_at,
                   !.net_calls = r.net_calls, !.result = r.result]
           /\ UNCHANGED <<config, failure_count, is_circuit_open,
                          circuit_open_time, opened_at, now, streak, last_failure_at,
                          repeated, threads>>

\* whether the wrapper's client call, entered now, gets as far as
\* requests.post
ViewReachesNetwork(description) ==
    description # NonString /\ ReachesNetwork(description)

\* the view-level predict_category called with `description`
ViewPredictCategory ==
    /\ last = NoCall
    /\ \E description \in ViewDescriptions :
       \E remote \in RemotesFor(ViewReachesNetwork(description)),
          latency \in LatenciesFor(ViewReachesNetwork(description)) :
       \E c \in {ViewClientCall(enabled, fallback_enabled, Circuit, now,
                                description, remote, latency)} :
           /\ now + latency <= MaxTime
           /\ SetCircuit(c.r.cb)
           /\ now' = now + latency
           /\ last' = [NoCall EXCEPT
                   !.op = "view_predict_category",
                   !.description = description, !.remote = remote,
                   !.pre = Circuit, !.pre_now = now, !.pre_streak = streak,
                   !.pre_failure_at = last_failure_at,
                   !.net_calls = c.r.net_calls, !.recorded = c.r.recorded,
                   !.via = c.r.via, !.result = c.r.result,
                   !.raised = c.raised,
                   !.view = ViewReturn(c.raised, c.r.result)]
           /\ streak' = 0
           /\ last_failure_at' = NoTime
           /\ repeated' = NoRepeat
           /\ UNCHANGED <<config, threads>>

\* process_voice_entry on the voice text `words`: without a word it answers
\* 400 (line 268); otherwise it asks the wrapper about the cleaned
\* description
ProcessVoiceEntry ==
    /\ last = NoCall
    /\ \E words \in VoiceTexts :
       \E remote \in RemotesFor(words # <<>>
                                /\ ReachesNetwork(CleanDescription(words))),
          latency \in LatenciesFor(words # <<>>
                                /\ ReachesNetwork(CleanDescription(words))) :
       \E c \in {IF words = <<>>
                 THEN [raised |-> FALSE,
                       r |-> Returned(Circuit, NoneOutcome, 0, <<>>, "none")]
                 ELSE ViewClientCall(enabled, fallback_enabled, Circuit, now,
                                     CleanDescription(words), remote, latency)} :
           /\ now + latency <= MaxTime
           /\ SetCircuit(c.r.cb)
           /\ now' = now + latency
           /\ last' = [NoCall EXCEPT
                   !.op = "process_voice_entry",
                   !.description = CleanDescription(words), !.remote = remote,
                   !.pre = Circuit, !.pre_now = now, !.pre_streak = streak,
                   !.pre_failure_at = last_failure_at,
                   !.net_calls = c.r.net_calls, !.recorded = c.r.recorded,
                   !.via = c.r.via, !.result = c.r.result,
                   !.raised = c.raised,
                   !.view = IF words = <<>> THEN NoView
                            ELSE ViewReturn(c.raised, c.r.result),
                   !.hint = InferCategory(words),
                   !.payload =
                       IF words = <<>>
                       THEN [NoPayload EXCEPT !.status = 400]
                       ELSE VoicePayload(InferCategory(words),
                                         ViewReturn(c.raised, c.r.result))]
           /\ streak' = 0
           /\ last_failure_at' = NoTime
           /\ repeated' = NoRepeat
           /\ UNCHANGED <<config, threads>>

\* the caller has taken the returned outcome and is ready for its next call
Return ==
    /\ last # NoCall
    /\ last' = NoCall
    /\ UNCHANGED <<config, failure_count, is_circuit_open, circuit_open_time,
                   opened_at, now, streak, last_failure_at, repeated, threads>>

Next ==
    \/ Tick
    \/ PredictCategory
    \/ PredictBatch
    \/ HealthCheck
    \/ ViewPredictCategory
    \/ ProcessVoiceEntry
    \/ Return

Spec == Init /\ [][Next]_vars

(***************************************************************************)
(* Request threads on the shared client (SpecConc).  A thread runs         *)
(* predict_category or predict_batch line by line; each step reads or      *)
(* writes at most one circuit field.  pc names the line of ml_client.py    *)
(* the thread executes next.                                               *)
(***************************************************************************)
circuit == <<failure_count, is_circuit_open, circuit_open_time, opened_at>>

Goto(self, label, locals) ==
    /\ pc' = [pc EXCEPT ![self] = label]
    /\ loc' = [loc EXCEPT ![self] = locals]

\* return self._fallback_response(..., reason), or the list of them
ReturnFallback(self, reason) ==
    LET out == FallbackResponse(fallback_enabled, "None", reason) IN
    Goto(self, "done", [loc[self] EXCEPT !.result = out.kind])

\* the reason given when the circuit breaker answers "open"
OpenReason(op) ==
    IF op = "predict_category"
    THEN Reason("Circuit breaker open")
    ELSE Reason("Service disabled or circuit open")

\* where a thread goes when _is_circuit_breaker_open answers False:
\* predict_category validates its input, predict_batch sends its request
PassCircuit(self) ==
    IF loc[self].op = "predict_category"
    THEN Goto(self, "l189", loc[self])
    ELSE Goto(self, "request", [loc[self] EXCEPT !.net_calls = 1])

\* the next _record_success or _record_failure of the try block, or its
\* return
Continue(self, todo) ==
    Goto(self,
         IF todo = <<>> THEN "done"
         ELSE IF Head(todo) = "success" THEN "l121" ELSE "l106",
         [loc[self] EXCEPT !.todo = todo])

\* a request thread enters predict_category or predict_batch
Call(self) ==
    /\ pc[self] = "idle"
    /\ \/ \E description \in Descriptions :
             Goto(self, "l175", [NoLocals EXCEPT !.op = "predict_category",
                                     !.blank = IsBlank(description)])
       \/ \E descriptions \in BatchInputs :
             Goto(self, "l307", [NoLocals EXCEPT !.op = "predict_batch"])
    /\ UNCHANGED <<config, circuit, now, caller>>

\* line 175, line 307: `if not self.enabled`
CheckEnabled(self) ==
    /\ pc[self] \in {"l175", "l307"}
    /\ IF ~enabled
       THEN ReturnFallback(self, IF pc[self] = "l175"
                                 THEN Reason("Service disabled")
                                 ELSE Reason("Service disabled or circuit open"))
       ELSE Goto(self, "l89", loc[self])
    /\ UNCHANGED <<config, circuit, now, caller>>

\* line 89: `if not self._is_circuit_open: return False`
L89(self) ==
    /\ pc[self] = "l89"
    /\ IF ~is_circuit_open
       THEN PassCircuit(self)
       ELSE Goto(self, "l93", loc[self])
    /\ UNCHANGED <<config, circuit, now, caller>>

\* line 93: `if self._circuit_open_time:`, else line 102 `return True`
L93(self) ==
    /\ pc[self] = "l93"
    /\ IF circuit_open_time = NoTime
       THEN ReturnFallback(self, OpenReason(loc[self].op))
       ELSE Goto(self, "l94", loc[self])
    /\ UNCHANGED <<config, circuit, now, caller>>

\* lines 94-95: `datetime.now() - self._circuit_open_time` reads the field
\* again; with None in it the subtraction raises TypeError, outside any try
\* block of the handler
L94(self) ==
    /\ pc[self] = "l94"
    /\ IF circuit_open_time = NoTime
       THEN Goto(self, "raised", [loc[self] EXCEPT !.result = "raised"])
       ELSE IF now - circuit_open_time >= RecoveryTimeout
       THEN Goto(self, "l97", loc[self])
       ELSE ReturnFallback(self, OpenReason(loc[self].op))
    /\ UNCHANGED <<config, circuit, now, caller>>

\* as L97, with the assignment left out: the flag stays set while the trial
\* call is in flight, until _record_success clears it
L97KeepsFlag(self) ==
    /\ pc[self] = "l97"
    /\ opened_at' = NoTime
    /\ Goto(self, "l98", [loc[self] EXCEPT !.trial = TRUE])
    /\ UNCHANGED <<config, failure_count, is_circuit_open, circuit_open_time,
                   now, caller>>

\* line 97: `self._is_circuit_open = False`
L97(self) ==
    /\ pc[self] = "l97"
    /\ is_circuit_open' = FALSE
    /\ opened_at' = NoTime
    /\ Goto(self, "l98", [loc[self] EXCEPT !.trial = TRUE])
    /\ UNCHANGED <<config, failure_count, circuit_open_time, now, caller>>

\* line 98: `self._failure_count = 0`
L98(self) ==
    /\ pc[self] = "l98"
    /\ failure_count' = 0
    /\ Goto(self, "l99", loc[self])
    /\ UNCHANGED <<config, is_circuit_open, circuit_open_time, opened_at, now,
                   caller>>

\* lines 99-100: `self._circuit_open_time = None; return False`
L99(self) ==
    /\ pc[self] = "l99"
    /\ circuit_open_time' = NoTime
    /\ PassCircuit(self)
    /\ UNCHANGED <<config, failure_count, is_circuit_open, opened_at, now,
                   caller>>

\* lines 189-195: the input validation, then requests.post is sent
L189(self) ==
    /\ pc[self] = "l189"
    /\ IF loc[self].blank
       THEN Goto(self, "done", [loc[self] EXCEPT !.result = "None",
                                                 !.trial = FALSE])
       ELSE Goto(self, "request", [loc[self] EXCEPT !.net_calls = 1])
    /\ UNCHANGED <<config, circuit, now, caller>>

\* requests.post returns or raises: the branch of the try block is taken,
\* which fixes the outcome to return and the records to make on the circuit
Respond(self) ==
    /\ pc[self] = "request"
    /\ \E remote \in IF loc[self].op = "predict_category"
                     THEN Remotes ELSE BatchRemotes :
       \E r \in {IF loc[self].op = "predict_category"
                 THEN PredictRequest(fallback_enabled, InitCircuit, now,
                                     "None", remote)
                 ELSE [result |-> IF remote.kind = "response"
                                     /\ remote.status = 200
                                     /\ remote.body \in {"ok", "no_predictions"}
                                  THEN NoOutcome("success")
                                  ELSE BatchRequest(fallback_enabled,
                                           InitCircuit, now, 1, remote).results[1],
                       recorded |-> BatchRequest(fallback_enabled, InitCircuit,
                                           now, 1, remote).recorded]} :
           /\ pc' = [pc EXCEPT ![self] =
                        IF Head(r.recorded) = "success" THEN "l121" ELSE "l106"]
           /\ loc' = [loc EXCEPT ![self] =
                         [@ EXCEPT !.todo = r.recorded,
                                   !.result = r.result.kind,
                                   !.trial = FALSE]]
    /\ UNCHANGED <<config, circuit, now, caller>>

\* line 121: `self._failure_count = 0`
L121(self) ==
    /\ pc[self] = "l121"
    /\ failure_count' = 0
    /\ Goto(self, "l122", loc[self])
    /\ UNCHANGED <<config, is_circuit_open, circuit_open_time, opened_at, now,
                   caller>>

\* line 122: `self._is_circuit_open = False`
L122(self) ==
    /\ pc[self] = "l122"
    /\ is_circuit_open' = FALSE
    /\ opened_at' = NoTime
    /\ Goto(self, "l123", loc[self])
    /\ UNCHANGED <<config, failure_count, circuit_open_time, now, caller>>

\* line 123: `self._circuit_open_time = None`
L123(self) ==
    /\ pc[self] = "l123"
    /\ circuit_open_time' = NoTime
    /\ Continue(self, Tail(loc[self].todo))
    /\ UNCHANGED <<config, failure_count, is_circuit_open, opened_at, now,
                   caller>>

\* line 106, `self._failure_count += 1`: the read
L106(self) ==
    /\ pc[self] = "l106"
    /\ Goto(self, "l106w", [loc[self] EXCEPT !.count = failure_count])
    /\ UNCHANGED <<config, circuit, now, caller>>

\* line 106, `self._failure_count += 1`: the write
L106w(self) ==
    /\ pc[self] = "l106w"
    /\ loc[self].count < MaxCount
    /\ failure_count' = loc[self].count + 1
    /\ Goto(self, "l108", [loc[self] EXCEPT !.count = 0])
    /\ UNCHANGED <<config, is_circuit_open, circuit_open_time, opened_at, now,
                   caller>>

\* line 108: `if self._failure_count >= self._failure_threshold`
L108(self) ==
    /\ pc[self] = "l108"
    /\ IF failure_count >= FailureThreshold
       THEN Goto(self, "l109", loc[self])
       ELSE Continue(self, Tail(loc[self].todo))
    /\ UNCHANGED <<config, circuit, now, caller>>

\* line 109: `self._is_circuit_open = True`
L109(self) ==
    /\ pc[self] = "l109"
    /\ is_circuit_open' = TRUE
    /\ opened_at' = now
    /\ Goto(self, "l110", loc[self])
    /\ UNCHANGED <<config, failure_count, circuit_open_time, now, caller>>

\* line 110: `self._circuit_open_time = datetime.now()`
L110(self) ==
    /\ pc[self] = "l110"
    /\ circuit_open_time' = now
    /\ opened_at' = now
    /\ Continue(self, Tail(loc[self].todo))
    /\ UNCHANGED <<config, failure_count, is_circuit_open, now, caller>>

\* the invocation is over: its outcome was returned, or its exception has
\* left the handler
Leave(self) ==
    /\ pc[self] \in {"done", "raised"}
    /\ Goto(self, "idle", NoLocals)
    /\ UNCHANGED <<config, circuit, now, caller>>

Step(self) ==
    \/ Call(self) \/ CheckEnabled(self)
    \/ L89(self) \/ L93(self) \/ L94(self)
    \/ L97(self) \/ L98(self) \/ L99(self)
    \/ L189(self) \/ Respond(self)
    \/ L121(self) \/ L122(self) \/ L123(self)
    \/ L106(self) \/ L106w(self) \/ L108(self) \/ L109(self) \/ L110(self)
    \/ Leave(self)

ConcNext == Tick \/ \E self \in Threads : Step(self)

SpecConc == Init /\ [][ConcNext]_vars

(***************************************************************************)
(* Request threads in get_ml_client (SpecClient), from the start of the    *)
(* process: _ml_client is None and no client exists.  loc[self].client is  *)
(* the object the thread has built or is returning.                        *)
(***************************************************************************)
InitProcess ==
    /\ enabled \in BOOLEAN
    /\ fallback_enabled \in BOOLEAN
    /\ ml_client = NoClient
    /\ instances = 0
    /\ failure_count = 0
    /\ is_circuit_open = FALSE
    /\ circuit_open_time = NoTime
    /\ opened_at = NoTime
    /\ now = 0
    /\ last = NoCall
    /\ streak = 0
    /\ last_failure_at = NoTime
    /\ repeated = NoRepeat
    /\ pc = [t \in Threads |-> "idle"]
    /\ loc = [t \in Threads |-> NoLocals]

\* a request thread enters get_ml_client
GetCall(self) ==
    /\ pc[self] = "idle"
    /\ Goto(self, "l349", [NoLocals EXCEPT !.op = "get_ml_client"])
    /\ UNCHANGED <<enabled, fallback_enabled, ml_client, instances, circuit,
                   now, caller>>

\* line 349: `if _ml_client is None:`
L349(self) ==
    /\ pc[self] = "l349"
    /\ IF ml_client = NoClient
       THEN Goto(self, "l350", loc[self])
       ELSE Goto(self, "l357", loc[self])
    /\ UNCHANGED <<enabled, fallback_enabled, ml_client, instances, circuit,
                   now, caller>>

\* lines 350-355, the right-hand side: MLServiceClient(...) builds a client
L350(self) ==
    /\ pc[self] = "l350"
    /\ instances' = instances + 1
    /\ Goto(self, "l350w", [loc[self] EXCEPT !.client = instances + 1])
    /\ UNCHANGED <<enabled, fallback_enabled, ml_client, circuit, now, caller>>

\* line 350, the assignment: `_ml_client = ` the client just built
L350w(self) ==
    /\ pc[self] = "l350w"
    /\ ml_client' = loc[self].client
    /\ Goto(self, "l357", loc[self])
    /\ UNCHANGED <<enabled, fallback_enabled, instances, circuit, now, caller>>

\* line 357: `return _ml_client` reads the global
L357(self) ==
    /\ pc[self] = "l357"
    /\ Goto(self, "returned", [loc[self] EXCEPT !.client = ml_client])
    /\ UNCHANGED <<enabled, fallback_enabled, ml_client, instances, circuit,
                   now, caller>>

\* the caller is done with the client it was given
GetLeave(self) ==
    /\ pc[self] = "returned"
    /\ Goto(self, "idle", NoLocals)
    /\ UNCHANGED <<enabled, fallback_enabled, ml_client, instances, circuit,
                   now, caller>>

GetStep(self) ==
    \/ GetCall(self)
    \/ L349(self)
    \/ L350(self)
    \/ L350w(self)
    \/ L357(self)
    \/ GetLeave(self)

ClientNext == \E self \in Threads : GetStep(self)

SpecClient == InitProcess /\ [][ClientNext]_vars

(***************************************************************************)
(* Properties of the single caller (Spec)                                  *)
(***************************************************************************)
\* the circuit was open at the entry of the last call and the recovery
\* timeout had elapsed
EnteredOpenAndElapsed ==
    /\ last.pre.is_circuit_open
    /\ last.pre.circuit_open_time # NoTime
    /\ last.pre_now - last.pre.circuit_open_time >= RecoveryTimeout

\* the last call was a predict_category that sent a request and did not
\* return a success
LastPredictFailed ==
    /\ last.op = "predict_category"
    /\ last.net_calls = 1
    /\ last.result.kind # "success"

ClosedAndClear ==
    /\ failure_count = 0
    /\ ~is_circuit_open
    /\ circuit_open_time = NoTime

\* C1: after three failed predict_category calls in a row, counted from a
\* closed circuit with failureCount 0, the circuit is open; and the next
\* predict_category call entered less than 60 s after the third failure
\* returns what _fallback_response builds for "Circuit breaker open" and
\* sends no request.
C1_ThreeFailuresOpenCircuit ==
    /\ streak = FailureThreshold => is_circuit_open
    /\ (/\ last.op = "predict_category"
        /\ last.pre_streak = FailureThreshold
        /\ last.pre_now - last.pre_failure_at < RecoveryTimeout)
       => /\ last.net_calls = 0
          /\ last.result = FallbackResponse(fallback_enabled, last.fallback,
                                            Reason("Circuit breaker open"))

\* C2: a predict_category call entered with the circuit open and the
\* recovery timeout elapsed, whose request fails, leaves the circuit open
\* with openedAt at the time of that failure.
C2_FailedTrialReopens ==
    (LastPredictFailed /\ EnteredOpenAndElapsed)
    => (is_circuit_open /\ circuit_open_time = now)

\* C3 as stated: every predict_category call entered with the circuit open
\* and the recovery timeout elapsed sends exactly one request, and after a
\* success the circuit is closed with failureCount 0 and openedAt cleared.
C3_TrialSendsOneRequest ==
    (last.op = "predict_category" /\ EnteredOpenAndElapsed)
    => /\ last.net_calls = 1
       /\ last.result.kind = "success" => ClosedAndClear

\* C3 amended: the same for a description that is not blank, on an enabled
\* client.
C3_TrialWithDescriptionSendsOneRequest ==
    (/\ last.op = "predict_category"
     /\ EnteredOpenAndElapsed
     /\ enabled
     /\ ~IsBlank(last.description))
    => /\ last.net_calls = 1
       /\ last.result.kind = "success" => ClosedAndClear

C3_Witness ==
    /\ last.op = "predict_category"
    /\ EnteredOpenAndElapsed
    /\ last.pre_now - last.pre.circuit_open_time = RecoveryTimeout
    /\ ~IsBlank(last.description)
    /\ last.net_calls = 1
    /\ last.result.kind = "success"
    /\ ClosedAndClear

\* C4: between the calls of a single caller, an open circuit has a
\* timestamp: isOpen implies openedAt is not null.
C4_OpenHasTimestamp == is_circuit_open => circuit_open_time # NoTime

C4_Witness ==
    /\ last.op = "predict_batch"
    /\ last.net_calls = 1
    /\ ~last.pre.is_circuit_open
    /\ is_circuit_open
    /\ circuit_open_time = now

\* C6: a predict_category call with a blank description sends no request and
\* leaves failureCount, isOpen and openedAt as they were at its entry.
C6_BlankLeavesCircuitAlone ==
    (last.op = "predict_category" /\ IsBlank(last.description))
    => (last.net_calls = 0 /\ Circuit = last.pre)

\* C7: a predict_category call with a blank description returns through the
\* invalid-input rejection, never with a fallback outcome.
C7_BlankIsRejected ==
    (last.op = "predict_category" /\ IsBlank(last.description))
    => (last.via = "invalid_input" /\ last.result.kind # "fallback")

\* circuit states a client can be called in at time `t`: closed below the
\* threshold, or open since `t`, since RecoveryTimeout before `t`, or since 0
CircuitsAt(t) ==
    {[InitCircuit EXCEPT !.failure_count = n] : n \in 0..(FailureThreshold - 1)}
    \cup {[failure_count |-> FailureThreshold, is_circuit_open |-> TRUE,
           circuit_open_time |-> o] :
             o \in {x \in {0, t - RecoveryTimeout, t} : x >= 0}}

\* a disabled client, called in any circuit state, sends nothing and leaves
\* the circuit fields alone
DisabledCallsLeave(cb) ==
    /\ \A d \in Descriptions, f \in FallbackArgs, rem \in Remotes,
          lat \in Latencies :
          \E r \in {PredictCategoryCall(FALSE, fallback_enabled, cb, now, d, f,
                                        rem, lat)} :
              r.cb = cb /\ r.net_calls = 0
    /\ \A n \in 0..MaxBatch, rem \in BatchRemotes, lat \in Latencies :
          \E r \in {PredictBatchCall(FALSE, fallback_enabled, cb, now, n, rem,
                                     lat)} :
              r.cb = cb /\ r.net_calls = 0

\* `outcome` is the fallback for `category` that gives `reason`
IsFallback(outcome, category, reason) ==
    /\ outcome.kind = "fallback"
    /\ outcome.category = category
    /\ outcome.confidence = 0
    /\ outcome.alternatives = <<>>
    /\ outcome.reason = reason

\* what a disabled client's last call has to have returned, `batch_reason`
\* being the reason expected in the elements of a batch
DisabledCallReturned(batch_reason) ==
    /\ last.net_calls = 0
    /\ Circuit = last.pre
    /\ fallback_enabled =>
          IF last.op = "predict_category"
          THEN IsFallback(last.result, last.fallback, Reason("Service disabled"))
          ELSE /\ Len(last.results) = last.n
               /\ \A i \in 1..last.n :
                      IsFallback(last.results[i], "None", batch_reason)

\* C8 as stated: on a disabled client every predict_category and
\* predict_batch call sends no request, leaves the circuit fields unchanged
\* and, with fallback mode on, returns the "Service disabled" fallback.
C8_DisabledGivesServiceDisabled ==
    (~enabled /\ last.op \in {"predict_category", "predict_batch"})
    => DisabledCallReturned(Reason("Service disabled"))

\* C8 amended: the same, the elements of a batch carrying the reason
\* "Service disabled or circuit open"; and the calls leave every circuit
\* state alone, an open one whose recovery timeout has elapsed included.
C8_DisabledTouchesNothing ==
    ~enabled =>
        /\ last.op \in {"predict_category", "predict_batch"} =>
              DisabledCallReturned(Reason("Service disabled or circuit open"))
        /\ \A cb \in CircuitsAt(now) : DisabledCallsLeave(cb)

C8_Witness ==
    /\ ~enabled
    /\ fallback_enabled
    /\ now >= RecoveryTimeout
    /\ last.op = "predict_batch"
    /\ last.n = MaxBatch
    /\ last.net_calls = 0
    /\ last.results[MaxBatch].reason = Reason("Service disabled or circuit open")

\* C9: after a predict_category call that returned a success, failureCount
\* is 0, the circuit is closed and openedAt is null.
C9_SuccessClearsCircuit ==
    (last.op = "predict_category" /\ last.result.kind = "success")
    => ClosedAndClear

C9_Witness ==
    /\ last.op = "predict_category"
    /\ last.result.kind = "success"
    /\ last.pre.failure_count = FailureThreshold - 1
    /\ ClosedAndClear

\* the reason the claim gives for each failed outcome of the request
ExpectedReason(remote) ==
    CASE remote.kind = "timeout" -> Reason("Timeout")
      [] remote.kind = "connection_error" -> Reason("Connection error")
      [] remote.kind = "response" /\ remote.status = 503 ->
            Reason("Service unavailable")
      [] remote.kind = "response" /\ remote.status # 200 ->
            HttpReason(remote.status)
      [] OTHER -> Reason("Unexpected error")

\* C10: with fallback mode on, a predict_category call whose request fails
\* leaves failureCount one above its value when the request was sent, and
\* returns a fallback with confidence 0.0, the caller's fallback category
\* and the reason of the outcome.
C10_FailureCountsOnce ==
    (LastPredictFailed /\ fallback_enabled)
    => /\ failure_count =
              IsCircuitBreakerOpen(last.pre, last.pre_now).cb.failure_count + 1
       /\ IsFallback(last.result, last.fallback, ExpectedReason(last.remote))

(***************************************************************************)
(* Properties of the request threads (SpecConc)                            *)
(***************************************************************************)
\* C5: no predict_category invocation with a non-blank description lets an
\* exception out to its caller, whatever the other invocations on the
\* shared client do.
C5_PredictCategoryNeverRaises ==
    \A t \in Threads :
        (loc[t].op = "predict_category" /\ ~loc[t].blank) => pc[t] # "raised"

(***************************************************************************)
(* The outcome of a request that was answered (Spec)                       *)
(***************************************************************************)
\* the last call was a predict_category whose request got a 200 with a
\* well-formed body
LastPredictAnswered ==
    /\ last.op = "predict_category"
    /\ last.via = "request"
    /\ last.remote.kind = "response"
    /\ last.remote.status = 200
    /\ last.remote.body = "ok"

\* C11: a 200 response carrying category C and confidence x makes
\* predict_category return a success outcome whose category is C, whose
\* confidence is x itself (not rounded, not clamped) and whose alternatives,
\* preprocessed text, inference time and model version are those of the
\* response.
C11_SuccessEchoesResponse ==
    LastPredictAnswered =>
       /\ last.result.kind = "success"
       /\ last.result.category = last.remote.category
       /\ last.result.confidence = last.remote.confidence
       /\ last.result.alternatives = last.remote.alternatives
       /\ last.result.preprocessed_text = last.remote.metadata.preprocessed_text
       /\ last.result.inference_time_ms = last.remote.metadata.inference_time_ms
       /\ last.result.model_version = last.remote.metadata.model_version

\* a 200 with a confidence that has four decimals, alternatives and metadata
C11_Witness ==
    /\ LastPredictAnswered
    /\ last.remote.confidence = 8523
    /\ last.remote.alternatives # <<>>
    /\ last.remote.metadata # NoMetadata
    /\ last.result.kind = "success"

(***************************************************************************)
(* Fallback mode off (Spec)                                                *)
(***************************************************************************)
\* the last predict_category call, made again from the same circuit fields
\* with the same inputs and the same remote behaviour on a client whose
\* fallback mode is on
LastPredictWithFallbackOn ==
    PredictCategoryCall(enabled, TRUE, last.pre, last.pre_now, last.description,
                        last.fallback, last.remote, now - last.pre_now)

C13_BatchOneOutcomePerInput ==
    last.op = "predict_batch" => Len(last.results) = last.n

(***************************************************************************)
(* predict_batch on an open circuit (Spec)                                 *)
(***************************************************************************)
\* the last call was a predict_batch that found the circuit open with less
\* than the recovery timeout elapsed
LastBatchFoundOpen ==
    /\ last.op = "predict_batch"
    /\ last.pre.is_circuit_open
    /\ last.pre_now - last.pre.circuit_open_time < RecoveryTimeout

\* C14 as stated: when the circuit is open and the recovery timeout has not
\* elapsed, predict_batch on n descriptions returns n fallback outcomes,
\* sends no request and leaves the circuit fields unchanged.
C14_OpenBatchGivesFallbacks ==
    LastBatchFoundOpen =>
       /\ Len(last.results) = last.n
       /\ \A i \in 1..last.n : last.results[i].kind = "fallback"
       /\ last.net_calls = 0
       /\ Circuit = last.pre

\* C14: when the circuit is open and the recovery timeout has not elapsed,
\* predict_batch on n descriptions returns a list of n elements, each the
\* "Service disabled or circuit open" fallback when fallback mode is on and
\* None when it is off, sends no request and leaves the circuit fields
\* unchanged.
C14_OpenBatchShortCircuits ==
    LastBatchFoundOpen =>
       /\ Len(last.results) = last.n
       /\ \A i \in 1..last.n :
             IF fallback_enabled
             THEN IsFallback(last.results[i], "None",
                             Reason("Service disabled or circuit open"))
             ELSE last.results[i] = NoneOutcome
       /\ last.net_calls = 0
       /\ Circuit = last.pre

\* a batch of two descriptions short-circuited 59 seconds after the circuit
\* opened
C14_Witness ==
    /\ LastBatchFoundOpen
    /\ last.n = 2
    /\ last.pre_now - last.pre.circuit_open_time = 59
    /\ Len(last.results) = 2
    /\ last.net_calls = 0

(***************************************************************************)
(* Repeated calls with one description (Spec)                              *)
(***************************************************************************)
\* C15: while the remote answers a description with a 200 carrying the same
\* category, every one of the repeated predict_category calls with that
\* description returns that category with success true, and after each of
\* them the circuit is closed with failureCount 0.
C15_RepeatedCallsAgree ==
    (last.op = "predict_category" /\ repeated.calls >= 1) =>
       /\ last.description = repeated.description
       /\ last.result.kind = "success"
       /\ last.result.category = repeated.category
       /\ ~is_circuit_open
       /\ failure_count = 0

\* the second call in a row with the description, answered with alternatives
C15_Witness ==
    /\ last.op = "predict_category"
    /\ repeated.calls = 2
    /\ ~last.pre.is_circuit_open
    /\ last.remote.alternatives # <<>>
    /\ last.result.category = repeated.category

\* no invocation is running
AtRest == \A t \in Threads : pc[t] = "idle"

\* C16: with predict_category and predict_batch invocations interleaved field
\* by field on the shared client, the open flag is never true while the
\* opening time is None; stated here for the states every invocation has
\* left, where no write of the pair is pending.
C16_OpenHasTimestampAtRest ==
    AtRest => (is_circuit_open => circuit_open_time # NoTime)

\* thread `self` takes the `return True` of _is_circuit_breaker_open inside a
\* predict_category call with a non-blank description, and no other
\* invocation is running
ShortCircuitsAlone(self) ==
    /\ pc[self] \in {"l93", "l94"}
    /\ pc'[self] = "done"
    /\ loc[self].op = "predict_category"
    /\ ~loc[self].blank
    /\ \A t \in Threads \ {self} : pc[t] = "idle"

\* C17: the circuit does not stay open for ever, also in the states reached
\* by interleaved invocations: a call with a non-empty description on an
\* enabled client is short-circuited only while less than 60 seconds have
\* passed since the circuit was last opened; after that it is let through to
\* the network.
C17_ElapsedCallIsLetThrough ==
    [][\A self \in Threads :
          (ShortCircuitsAlone(self) /\ opened_at # NoTime) =>
              now - opened_at < RecoveryTimeout]_vars

(***************************************************************************)
(* The circuit fields between the calls of one caller (Spec)               *)
(***************************************************************************)
\* C18: for a single caller, between calls the circuit is open exactly when
\* failureCount is at least the threshold (3); while it is closed the count
\* is one of 0, 1, 2, and the count never exceeds 3.
C18_OpenIffThreshold ==
    /\ is_circuit_open <=> failure_count >= FailureThreshold
    /\ ~is_circuit_open => failure_count \in 0..(FailureThreshold - 1)
    /\ failure_count <= FailureThreshold

\* the circuit has closed again after a recovery, and a call has failed since
C18_Witness ==
    /\ ~is_circuit_open
    /\ failure_count = 1
    /\ last.pre.is_circuit_open
    /\ last.pre.failure_count = FailureThreshold
    /\ last.net_calls = 1

\* the last call was a predict_category that found the circuit open with
\* less than the recovery timeout elapsed
LastPredictFoundOpen ==
    /\ last.op = "predict_category"
    /\ last.pre.is_circuit_open
    /\ last.pre_now - last.pre.circuit_open_time < RecoveryTimeout

\* C19: a predict_category call short-circuited because the circuit is open
\* and the recovery timeout has not elapsed leaves failureCount, isOpen and
\* openedAt as they were, so that such calls do not extend the open period.
C19_ShortCircuitLeavesCircuit ==
    LastPredictFoundOpen =>
       /\ last.via = "circuit_open"
       /\ failure_count = last.pre.failure_count
       /\ is_circuit_open = last.pre.is_circuit_open
       /\ circuit_open_time = last.pre.circuit_open_time

\* a call short-circuited 59 seconds after the circuit opened
C19_Witness ==
    /\ LastPredictFoundOpen
    /\ last.via = "circuit_open"
    /\ ~IsBlank(last.description)
    /\ last.pre_now - last.pre.circuit_open_time = 59
    /\ circuit_open_time = last.pre.circuit_open_time

(***************************************************************************)
(* Requests sent by one call (Spec)                                        *)
(***************************************************************************)
\* C20: a predict_category call sends at most one request and a predict_batch
\* call sends at most one request whatever the number of descriptions; no
\* call repeats its request.
C20_AtMostOneRequest ==
    last.op \in {"predict_category", "predict_batch"} =>
       /\ last.net_calls \in {0, 1}
       /\ last.net_calls = 0 => last.recorded = <<>>

\* a batch of two descriptions whose single request failed
C20_Witness ==
    /\ last.op = "predict_batch"
    /\ last.n = 2
    /\ last.net_calls = 1
    /\ last.remote.kind = "timeout"
    /\ Len(last.results) = 2

(***************************************************************************)
(* A batch whose request fails (Spec)                                      *)
(***************************************************************************)
\* the last call was a predict_batch whose request was sent and failed: an
\* exception of requests.post, a status other than 200, or an exception
\* raised while the 200 was handled
LastBatchFailed ==
    /\ last.op = "predict_batch"
    /\ last.net_calls = 1
    /\ ~(last.remote.kind = "response" /\ last.remote.status = 200
         /\ last.remote.body \in {"ok", "no_predictions"})

\* C21: when predict_batch reaches the network and the batched call fails
\* (a status other than 200 or any exception), the returned list holds one
\* and the same outcome for every description, a fallback when fallback
\* mode is on, and failureCount ends one above its value when the request
\* was sent: one increment for the whole batch.
C21_BatchFailureCountsOnce ==
    LastBatchFailed =>
       /\ Len(last.results) = last.n
       /\ \A i, j \in 1..last.n : last.results[i] = last.results[j]
       /\ fallback_enabled =>
             \A i \in 1..last.n : last.results[i].kind = "fallback"
       /\ failure_count =
             IsCircuitBreakerOpen(last.pre, last.pre_now).cb.failure_count + 1

(***************************************************************************)
(* The recovery reset under interleaving (SpecConc)                        *)
(***************************************************************************)
\* thread `t` has cleared the open flag (line 97) and has not yet reset the
\* count (line 98), which still holds the value that opened the circuit
TornReset(t) ==
    /\ pc[t] = "l98"
    /\ ~is_circuit_open
    /\ failure_count >= FailureThreshold

\* thread `u` reads the open flag at line 89 in this step
ObservesFlag(u) == pc[u] = "l89" /\ pc'[u] # "l89"

\* C22: under interleaved invocations the clearing of the open flag and the
\* reset of failureCount to 0 are one step for every other invocation: none
\* reads the flag while it is cleared and the count still holds its value of
\* at least 3 from before the reset.
C22_ResetIsOneStep ==
    [][\A t, u \in Threads :
          (t # u /\ ObservesFlag(u)) => ~TornReset(t)]_vars

(***************************************************************************)
(* The trial call under interleaving (SpecConc)                            *)
(***************************************************************************)
\* thread `t` is in a trial call whose request is in flight
TrialInFlight(t) ==
    /\ loc[t].op = "predict_category"
    /\ loc[t].trial
    /\ pc[t] = "request"

\* C23: the trial call is not single-flight.  While the request of a trial
\* call is in flight and the circuit has not been opened again, a second
\* predict_category invocation that reads the open flag is let through to
\* its own request instead of being short-circuited.
C23_TrialIsNotSingleFlight ==
    [][\A t, u \in Threads :
          (/\ t # u
           /\ TrialInFlight(t)
           /\ opened_at = NoTime
           /\ loc[u].op = "predict_category"
           /\ ObservesFlag(u))
          => pc'[u] = "l189"]_vars

\* both invocations have sent their request: the trial call's is still in
\* flight when the second one's leaves
C23_Witness ==
    \E t, u \in Threads :
        /\ t # u
        /\ TrialInFlight(t)
        /\ loc[u].op = "predict_category"
        /\ ~loc[u].trial
        /\ pc[u] = "request"
        /\ loc[t].net_calls = 1
        /\ loc[u].net_calls = 1

(***************************************************************************)
(* The clients handed out by get_ml_client (SpecClient)                    *)
(***************************************************************************)
\* C24: get_ml_client constructs at most one MLServiceClient per process,
\* and every call, also the calls racing from request threads on first use,
\* returns that one instance.
C24_OneClientPerProcess ==
    /\ instances <= 1
    /\ \A t, u \in Threads :
          (pc[t] = "returned" /\ pc[u] = "returned") =>
              loc[t].client = loc[u].client

(***************************************************************************)
(* health_check (Spec)                                                     *)
(***************************************************************************)
\* C25: health_check neither reads nor writes the circuit: whatever its
\* outcome (a response, an exception, the disabled answer) failureCount,
\* isOpen and openedAt are as before, and on an enabled client it sends its
\* request also while the circuit is open.
C25_HealthCheckLeavesCircuit ==
    last.op = "health_check" =>
       /\ Circuit = last.pre
       /\ last.net_calls = IF enabled THEN 1 ELSE 0

\* a probe sent while the circuit is open, ending in an exception
C25_Witness ==
    /\ last.op = "health_check"
    /\ last.pre.is_circuit_open
    /\ last.pre_now - last.pre.circuit_open_time < RecoveryTimeout
    /\ last.net_calls = 1
    /\ last.result.kind = "unavailable"
    /\ is_circuit_open

\* C26: on an enabled client health_check takes every response that
\* arrives, whatever its status, as reachable and returns its body, and
\* reports only an exception of the request as unavailable
\* (MLServiceUnavailableError); on a disabled client it returns the
\* 'disabled' status without a request.
C26_AnyResponseIsReachable ==
    last.op = "health_check" =>
       IF ~enabled
       THEN last.result.kind = "disabled" /\ last.net_calls = 0
       ELSE /\ last.remote.kind = "response" => last.result.kind = "body"
            /\ last.result.kind = "unavailable" =>
                  last.remote.kind \in {"timeout", "connection_error"}

(***************************************************************************)
(* The views (Spec)                                                        *)
(***************************************************************************)
\* the client call of the last view succeeded
LastClientSucceeded == ~last.raised /\ last.result.kind = "success"

\* C27: process_voice_entry with a non-empty voice text returns the
\* predictor's category with category_source 'ai' exactly when the
\* predictor's outcome is a success; for a fallback, None or an error it
\* returns the keyword hint, or 'Uncategorized' without a hint, with
\* category_source 'rule', and answers normally all the same.
C27_VoiceCategorySource ==
    (last.op = "process_voice_entry" /\ last.description # <<>>) =>
       /\ last.payload.status = 200
       /\ IF LastClientSucceeded
          THEN /\ last.payload.category = last.result.category
               /\ last.payload.category_source = "ai"
          ELSE /\ last.payload.category =
                     IF last.hint # "None" THEN last.hint ELSE "Uncategorized"
               /\ last.payload.category_source = "rule"

\* a voice text with a keyword, answered by a fallback of the predictor
C27_Witness ==
    /\ last.op = "process_voice_entry"
    /\ last.result.kind = "fallback"
    /\ last.net_calls = 1
    /\ last.hint = "Transport"
    /\ last.payload.category = "Transport"
    /\ last.payload.category_source = "rule"

\* C28: the view-level predict_category never raises: it returns success
\* true, with the predicted category and confidence, exactly when the
\* client returned a success outcome, and a dict with success false when the
\* client returned None, returned a fallback or raised.
C28_WrapperNeverRaises ==
    last.op = "view_predict_category" =>
       /\ last.view.success <=> LastClientSucceeded
       /\ last.view.success =>
             /\ last.view.predicted_category = last.result.category
             /\ last.view.confidence = last.result.confidence
       /\ ~last.view.success => last.view.error # NoReason

\* the client call raised and the wrapper answered with success false
C28_Witness ==
    /\ last.op = "view_predict_category"
    /\ last.raised
    /\ last.description = NonString
    /\ ~last.view.success
    /\ last.view.error = Reason("An unexpected error occurred")

(***************************************************************************)
(* The opening time under interleaving (SpecConc)                          *)
(***************************************************************************)
\* C29: openedAt is written only when the circuit goes from closed to open.
\* Once the circuit is open with its opening time set, no step of any
\* invocation, also of one whose request was in flight when the circuit
\* opened and fails afterwards, replaces that time by a later one: the
\* circuit short-circuits for no more than 60 seconds from its opening.
C29_OpenedAtWrittenOnOpening ==
    [][(/\ is_circuit_open
        /\ circuit_open_time # NoTime
        /\ circuit_open_time' # NoTime)
       => circuit_open_time' = circuit_open_time]_vars

(***************************************************************************)
(* What one call records on the circuit (Spec)                             *)
(***************************************************************************)
\* C30: a predict_category call that sends its request records exactly one
\* of success and failure on the circuit, never both: a 200 whose body is
\* valid JSON without a numeric confidence does not reset failureCount and
\* then increment it in the same call.
C30_RecordsExactlyOnce ==
    (last.op = "predict_category" /\ last.net_calls = 1) =>
       /\ Len(last.recorded) = 1
       /\ (last.remote.kind = "response" /\ last.remote.status = 200
           /\ last.remote.body = "no_confidence")
          => failure_count = last.pre.failure_count

====
